---- MODULE Spec2Model ----
(***************************************************************************)
(* Model of the CMSIS-Pack flash algorithm glue generated by the           *)
(* `algorithm!` macro of soul-flashalgo (src/external/soul-flashalgo/      *)
(* src/lib.rs): the two statics _IS_INIT and _ALGO_INSTANCE and the six    *)
(* C-ABI entries Init, UnInit, EraseSector, ProgramPage, EraseChip and     *)
(* Verify, driven serially by a host.  The FlashAlgorithm implementation   *)
(* (constructor, capabilities, destructor) is the environment: its results *)
(* are chosen nondeterministically.                                        *)
(***************************************************************************)
EXTENDS Integers, Sequences, FiniteSets, TLC

\* ------------------------------------------------------------------------
\* Bounds and input domains
\* ------------------------------------------------------------------------

\* Number of entry calls the host makes in one run.
MaxCalls == 4

\* lib.rs:24-26
FUNCTION_ERASE == 1
FUNCTION_PROGRAM == 2
FUNCTION_VERIFY == 3

\* Values of the `function` argument the host may send: the three known
\* selectors and the unknown ones 0, 4 and a large one (0x7FFFFFFF, the
\* largest integer the model checker represents, standing for 0xFFFFFFFF).
Selectors == {0, FUNCTION_ERASE, FUNCTION_PROGRAM, FUNCTION_VERIFY, 4, 2147483647}

\* Sample values of ErrorCode = NonZeroU32 (lib.rs:28): the smallest one and
\* the 0x70d0 that main.rs returns from erase_all.
ErrorCodes == {1, 28880}

Addrs == {0, 134217728}
Clocks == {0}
\* `page_size` of the algorithm! invocation (main.rs:13, 0x400).
page_size == 1024

\* Values of the `size` argument: empty, a few bytes, and two pages.
Sizes == {0, 4, 2048}

\* Raw `data` pointers: the null pointer and the address of a host buffer.
NULL == 0
Pointers == {NULL, 536870912}

\* ------------------------------------------------------------------------
\* Result<_, ErrorCode> and its translation to a status code
\* ------------------------------------------------------------------------

Ok == [kind |-> "ok", err |-> 0]
Err(e) == [kind |-> "err", err |-> e]
\* The callee did not return: it was entered through undefined behaviour
\* and took a fault.
Fault == [kind |-> "fault", err |-> 0]

Results == {Ok} \cup {Err(e) : e \in ErrorCodes}

\* `match r { Ok(..) => 0, Err(e) => e.get() }`
ResultCode(r) == IF r.kind = "ok" THEN 0 ELSE r.err

\* Variant of DecodeFunction that takes an unknown selector for Erase
\* instead of panicking.
DecodeFunction_DefaultErase(function) ==
    CASE function = 2 -> "Program"
      [] function = 3 -> "Verify"
      [] OTHER -> "Erase"

\* `match function { 1 => Erase, 2 => Program, 3 => Verify, _ => panic!() }`
DecodeFunction(function) ==
    CASE function = 1 -> "Erase"
      [] function = 2 -> "Program"
      [] function = 3 -> "Verify"
      [] OTHER -> "panic"

\* ------------------------------------------------------------------------
\* State
\* ------------------------------------------------------------------------

VARIABLES
    _IS_INIT,        \* static mut _IS_INIT: bool
    _ALGO_INSTANCE,  \* static mut _ALGO_INSTANCE: MaybeUninit<T>
    halted,          \* "no", or why the CPU stopped: "panic" | "fault"
    log,             \* calls into the FlashAlgorithm impl made by the last entry
    lastEntry,       \* name of the last entry the host called
    lastArgs,        \* its arguments
    lastRet,         \* what it returned to the host, if it returned
    pre,             \* the statics and the session history when it was called
    prev,            \* the entry called before it and its result
    hist,            \* outcome of the latest Init/UnInit call
    hadOkInit,       \* some Init has returned 0
    news,            \* number of instances constructed so far
    drops,           \* number of destructor runs so far
    calls,           \* number of entry calls so far
    nameArgs,        \* an evaluation of assign_name: its OPT_LEN and name
    nameAns,         \* and what it evaluates to
    authored,        \* the arguments of an algorithm! invocation
    FlashDevice,     \* static FlashDevice: FlashDeviceDescription
    SelfTestMetadata \* static SelfTestMetadata: SelfTestDescription

runVars == <<_IS_INIT, _ALGO_INSTANCE, halted, log, lastEntry, lastArgs,
             lastRet, pre, prev, hist, hadOkInit, news, drops, calls>>

buildVars == <<nameArgs, nameAns, authored, FlashDevice, SelfTestMetadata>>

vars == <<runVars, buildVars>>

\* MaybeUninit::uninit(): storage that was never written.
Uninit == [state |-> "uninit", id |-> 0, function |-> "none"]

Returned(code) == [returned |-> TRUE, code |-> code]
NoReturn == [returned |-> FALSE, code |-> 0]

\* The machine as one record: the statics plus what the running entry has
\* done so far.
Machine == [init |-> _IS_INIT, inst |-> _ALGO_INSTANCE, halted |-> halted,
            log |-> <<>>, ret |-> NoReturn, news |-> news, drops |-> drops]

Live(m) == m.inst.state = "live"

\* One call into the FlashAlgorithm implementation.
Event(ev, m, function, args, res) ==
    [ev |-> ev, id |-> m.inst.id, live |-> Live(m), function |-> function,
     args |-> args, res |-> res]

\* Outcomes of running T's code on the storage: on a live instance it
\* returns; on storage without a live instance the behaviour is undefined and
\* it either returns or faults.
DropOutcomes(m) == IF Live(m) THEN {Ok} ELSE {Ok, Fault}
CallOutcomes(m, defined) ==
    IF Live(m) /\ defined THEN Results ELSE Results \cup {Fault}

\* ------------------------------------------------------------------------
\* Entry bodies, as functions of the machine record
\* ------------------------------------------------------------------------

\* Variant of UnInitBody that forgets `_IS_INIT = false`.
UnInitBody_KeepsFlag(m, d) ==
    IF ~m.init THEN [m EXCEPT !.ret = Returned(1)]
    ELSE LET dropped == [m EXCEPT
                 !.log = Append(@, Event("drop", m, m.inst.function, <<>>, d)),
                 !.drops = @ + 1,
                 !.inst.state = "dropped"]
         IN IF d.kind = "fault"
            THEN [dropped EXCEPT !.halted = "fault"]
            ELSE [dropped EXCEPT !.ret = Returned(0)]

\* lib.rs:144-151
UnInitBody(m, d) ==
    IF ~m.init THEN [m EXCEPT !.ret = Returned(1)]
    ELSE LET dropped == [m EXCEPT
                 !.log = Append(@, Event("drop", m, m.inst.function, <<>>, d)),
                 !.drops = @ + 1,
                 !.inst.state = "dropped"]
         IN IF d.kind = "fault"
            THEN [dropped EXCEPT !.halted = "fault"]
            ELSE [dropped EXCEPT !.init = FALSE, !.ret = Returned(0)]

\* Variant of Construct that reports every constructor error as 1.
Construct_ErrorAsOne(m, addr, clock, fn, r) ==
    LET called == [m EXCEPT
            !.log = Append(@, Event("new", m, fn, <<addr, clock>>, r))]
    IN IF r.kind = "ok"
       THEN [called EXCEPT
                !.inst = [state |-> "live", id |-> m.news + 1, function |-> fn],
                !.news = @ + 1,
                !.init = TRUE,
                !.ret = Returned(0)]
       ELSE [called EXCEPT !.ret = Returned(1)]

\* lib.rs:133-140
Construct(m, addr, clock, fn, r) ==
    LET called == [m EXCEPT
            !.log = Append(@, Event("new", m, fn, <<addr, clock>>, r))]
    IN IF r.kind = "ok"
       THEN [called EXCEPT
                !.inst = [state |-> "live", id |-> m.news + 1, function |-> fn],
                !.news = @ + 1,
                !.init = TRUE,
                !.ret = Returned(0)]
       ELSE [called EXCEPT !.ret = Returned(ResultCode(r))]

\* Variant of InitBody that overwrites the held instance without calling
\* UnInit first.
InitBody_NoUnInit(m, addr, clock, function, r, d) ==
    LET m2 == [m EXCEPT !.init = TRUE]
        fn == DecodeFunction(function)
    IN IF fn = "panic" THEN [m2 EXCEPT !.halted = "panic"]
       ELSE Construct(m2, addr, clock, fn, r)

\* Variant of InitBody that decodes the selector before it releases the
\* held instance.
InitBody_DecodeFirst(m, addr, clock, function, r, d) ==
    LET fn == DecodeFunction(function)
        m1 == IF m.init THEN [UnInitBody(m, d) EXCEPT !.ret = NoReturn] ELSE m
        m2 == [m1 EXCEPT !.init = TRUE]
    IN IF fn = "panic" THEN [m EXCEPT !.init = TRUE, !.halted = "panic"]
       ELSE IF m1.halted # "no" THEN m1
       ELSE Construct(m2, addr, clock, fn, r)

\* lib.rs:122-141
InitBody(m, addr, clock, function, r, d) ==
    LET m1 == IF m.init THEN [UnInitBody(m, d) EXCEPT !.ret = NoReturn] ELSE m
        m2 == [m1 EXCEPT !.init = TRUE]
        fn == DecodeFunction(function)
    IN IF m1.halted # "no" THEN m1
       ELSE IF fn = "panic" THEN [m2 EXCEPT !.halted = "panic"]
       ELSE Construct(m2, addr, clock, fn, r)

\* Variant of Dispatch that calls the capability a second time when it
\* failed.
Dispatch_RetryOnce(m, cap, args, r) ==
    IF ~m.init THEN [m EXCEPT !.ret = Returned(1)]
    ELSE LET ev == Event(cap, m, m.inst.function, args, r)
             called == [m EXCEPT
                 !.log = IF r.kind = "err" THEN @ \o <<ev, ev>> ELSE Append(@, ev)]
         IN IF r.kind = "fault"
            THEN [called EXCEPT !.halted = "fault"]
            ELSE [called EXCEPT !.ret = Returned(ResultCode(r))]

\* Variant of Dispatch that ends the session when the capability fails.
Dispatch_ErrorEndsSession(m, cap, args, r) ==
    IF ~m.init THEN [m EXCEPT !.ret = Returned(1)]
    ELSE LET called == [m EXCEPT
                 !.log = Append(@, Event(cap, m, m.inst.function, args, r))]
         IN IF r.kind = "fault"
            THEN [called EXCEPT !.halted = "fault"]
            ELSE IF r.kind = "err"
            THEN [called EXCEPT !.init = FALSE, !.ret = Returned(ResultCode(r))]
            ELSE [called EXCEPT !.ret = Returned(ResultCode(r))]

\* The shape shared by EraseSector, ProgramPage, EraseChip and Verify:
\* guard on _IS_INIT, borrow the instance, call the capability, translate.
Dispatch(m, cap, args, r) ==
    IF ~m.init THEN [m EXCEPT !.ret = Returned(1)]
    ELSE LET called == [m EXCEPT
                 !.log = Append(@, Event(cap, m, m.inst.function, args, r))]
         IN IF r.kind = "fault"
            THEN [called EXCEPT !.halted = "fault"]
            ELSE [called EXCEPT !.ret = Returned(ResultCode(r))]

\* lib.rs:154-163
EraseSectorBody(m, addr, r) == Dispatch(m, "erase_sector", <<addr>>, r)

\* Variant of ProgramPageBody that cuts the view down to one page.
ProgramPageBody_ClampToPage(m, addr, size, data, r) ==
    Dispatch(m, "program_page",
             <<addr, [ptr |-> data,
                      len |-> IF size > page_size THEN page_size ELSE size]>>, r)

\* lib.rs:166-176: the view is from_raw_parts(data, size).
ProgramPageBody(m, addr, size, data, r) ==
    Dispatch(m, "program_page", <<addr, [ptr |-> data, len |-> size]>>, r)

\* lib.rs:294-303
EraseChipBody(m, r) == Dispatch(m, "erase_all", <<>>, r)

\* Variant of VerifyBody without the is_null test: it always builds a slice.
VerifyBody_AlwaysSlice(m, addr, size, data, r) ==
    Dispatch(m, "verify",
             <<addr, size, [none |-> FALSE, ptr |-> data, len |-> size]>>, r)

\* lib.rs:320-338: None when data is null, else from_raw_parts(data, size).
VerifyBody(m, addr, size, data, r) ==
    Dispatch(m, "verify",
             <<addr, size,
               IF data = NULL THEN [none |-> TRUE, ptr |-> NULL, len |-> 0]
               ELSE [none |-> FALSE, ptr |-> data, len |-> size]>>, r)

\* from_raw_parts requires a non-null pointer, also for a length of 0.
SliceDefined(data) == data # NULL

\* ------------------------------------------------------------------------
\* Host calls
\* ------------------------------------------------------------------------

HistAfter(entry, m) ==
    CASE entry = "Init" ->
            IF ~m.ret.returned THEN "initTrap"
            ELSE IF m.ret.code = 0 /\ Live(m) /\ m.news > news THEN "initOk"
            ELSE "initErr"
      [] entry = "UnInit" -> IF m.ret.returned THEN "unInit" ELSE "unInitTrap"
      [] OTHER -> hist

\* The host calls `entry` with `args`; the entry runs to completion (or to
\* a trap) and leaves the machine as m.
Call(entry, args, m) ==
    /\ halted = "no"
    /\ calls < MaxCalls
    /\ _IS_INIT' = m.init
    /\ _ALGO_INSTANCE' = m.inst
    /\ halted' = m.halted
    /\ log' = m.log
    /\ lastEntry' = entry
    /\ lastArgs' = args
    /\ lastRet' = m.ret
    /\ pre' = [init |-> _IS_INIT, inst |-> _ALGO_INSTANCE, hist |-> hist]
    /\ prev' = [entry |-> lastEntry, ret |-> lastRet, pre |-> pre, hist |-> hist]
    /\ hist' = HistAfter(entry, m)
    /\ hadOkInit' = (hadOkInit \/ HistAfter(entry, m) = "initOk")
    /\ news' = m.news
    /\ drops' = m.drops
    /\ calls' = calls + 1
    /\ UNCHANGED buildVars

Init ==
    \E addr \in Addrs, clock \in Clocks, function \in Selectors,
       r \in Results, d \in DropOutcomes(Machine) :
        Call("Init", <<addr, clock, function>>,
             InitBody(Machine, addr, clock, function, r, d))

UnInit ==
    \E d \in DropOutcomes(Machine) :
        Call("UnInit", <<>>, UnInitBody(Machine, d))

EraseSector ==
    \E addr \in Addrs, r \in CallOutcomes(Machine, TRUE) :
        Call("EraseSector", <<addr>>, EraseSectorBody(Machine, addr, r))

ProgramPage ==
    \E addr \in Addrs, size \in Sizes, data \in Pointers :
      \E r \in CallOutcomes(Machine, SliceDefined(data)) :
        Call("ProgramPage", <<addr, size, data>>,
             ProgramPageBody(Machine, addr, size, data, r))

EraseChip ==
    \E r \in CallOutcomes(Machine, TRUE) :
        Call("EraseChip", <<>>, EraseChipBody(Machine, r))

Verify ==
    \E addr \in Addrs, size \in Sizes, data \in Pointers,
       r \in CallOutcomes(Machine, TRUE) :
        Call("Verify", <<addr, size, data>>,
             VerifyBody(Machine, addr, size, data, r))

\* The statics of an image that has not run: lib.rs:117-118.
StaticsLoaded ==
    /\ _IS_INIT = FALSE
    /\ _ALGO_INSTANCE = Uninit
    /\ halted = "no"
    /\ log = <<>>
    /\ lastEntry = "none"
    /\ lastArgs = <<>>
    /\ lastRet = NoReturn
    /\ pre = [init |-> FALSE, inst |-> Uninit, hist |-> "none"]
    /\ prev = [entry |-> "none", ret |-> NoReturn,
               pre |-> [init |-> FALSE, inst |-> Uninit, hist |-> "none"],
               hist |-> "none"]
    /\ hist = "none"
    /\ hadOkInit = FALSE
    /\ news = 0
    /\ drops = 0
    /\ calls = 0

\* The entries read neither descriptor: while the host drives the entries
\* the build-time part of the state is left out.
Absent == [state |-> "absent"]

\* The image as loaded by the host.
Loaded ==
    /\ StaticsLoaded
    /\ nameArgs = Absent
    /\ nameAns = Absent
    /\ authored = Absent
    /\ FlashDevice = Absent
    /\ SelfTestMetadata = Absent

Next == Init \/ UnInit \/ EraseSector \/ ProgramPage \/ EraseChip \/ Verify

Spec == Loaded /\ [][Next]_vars

\* ------------------------------------------------------------------------
\* Build time: assign_name, count! and the two descriptors
\* ------------------------------------------------------------------------

\* Bounds of the build-time inputs.
MaxNameLen == 3
MaxWidth == 4
MaxSectors == 2
MaxTests == 2

\* A u32 as its two 16-bit halves, high half first, the way the source
\* writes 0xffff_ffff (a value the model checker's integers cannot hold).
u32(hi, lo) == <<hi, lo>>

\* `n as u32` for a count n.
as_u32(n) == u32((n \div 65536) % 65536, n % 65536)

SeqsUpTo(S, n) == UNION {[1..k -> S] : k \in 0..n}

\* ASCII bytes names are made of: 'A' and 'z'.
NameBytes == {65, 122}

\* dev_name: [u8; 128] (lib.rs:244) and name: [u8; 32] (lib.rs:259).
DEV_NAME_LEN == 128
TEST_NAME_LEN == 32

AssertFailed == [state |-> "assert_failed"]

\* The loop `while i < name_len { ans[i] = arr[i]; i += 1; }`, arrays being
\* 1-based here.
RECURSIVE CopyLoop(_, _, _, _)
CopyLoop(ans, arr, i, name_len) ==
    IF i < name_len
    THEN CopyLoop([ans EXCEPT ![i + 1] = arr[i + 1]], arr, i + 1, name_len)
    ELSE ans

\* Variant of assign_name that pads with spaces.
assign_name_SpacePadded(OPT_LEN, name) ==
    IF ~(Len(name) <= OPT_LEN) THEN AssertFailed
    ELSE [state |-> "array",
          bytes |-> CopyLoop([k \in 1..OPT_LEN |-> 32], name, 0, Len(name))]

\* lib.rs:30-41
assign_name(OPT_LEN, name) ==
    IF ~(Len(name) <= OPT_LEN) THEN AssertFailed
    ELSE [state |-> "array",
          bytes |-> CopyLoop([k \in 1..OPT_LEN |-> 0], name, 0, Len(name))]

\* lib.rs:344-347
RECURSIVE count(_)
count(xs) == IF xs = <<>> THEN 0 ELSE 1 + count(Tail(xs))

\* The macro pattern `$( ... ),+` of sectors and self_tests (lib.rs:108-115)
\* matches one repetition or more.
MacroMatches(a) == Len(a.sectors) >= 1 /\ Len(a.self_tests) >= 1

NoMatch == [state |-> "no_rule_matches"]
ConstEvalError == [state |-> "const_eval_error"]
TypeError == [state |-> "mismatched_types"]

\* An array literal `lit` stored in a field of type [_; len].
ArrayField(lit, len, built) ==
    IF Len(lit) = len THEN built ELSE TypeError

\* Variant of FlashDeviceOf that leaves out the end marker, in the literal
\* and in the array type.
FlashDeviceOf_NoSentinel(a) ==
    LET dev_name == assign_name(DEV_NAME_LEN, a.target_name)
        flash_sectors ==
            [i \in 1..Len(a.sectors) |->
                [size |-> a.sectors[i].size, address |-> a.sectors[i].address]]
    IN IF dev_name.state # "array" THEN ConstEvalError
       ELSE ArrayField(flash_sectors, count(a.sectors),
              [state |-> "built",
               vers |-> 0,
               dev_name |-> dev_name.bytes,
               dev_type |-> 5,
               dev_addr |-> a.flash_address,
               device_size |-> a.flash_size,
               page_size |-> a.page_size,
               _reserved |-> u32(0, 0),
               empty |-> a.empty_value,
               program_time_out |-> u32(0, 1000),
               erase_time_out |-> u32(0, 2000),
               flash_sectors |-> flash_sectors])

\* lib.rs:184-215 with the type of lib.rs:241-254
FlashDeviceOf(a) ==
    LET dev_name == assign_name(DEV_NAME_LEN, a.target_name)
        flash_sectors ==
            [i \in 1..Len(a.sectors) |->
                [size |-> a.sectors[i].size, address |-> a.sectors[i].address]]
            \o <<[size |-> u32(65535, 65535), address |-> u32(65535, 65535)]>>
    IN IF dev_name.state # "array" THEN ConstEvalError
       ELSE ArrayField(flash_sectors, count(a.sectors) + 1,
              [state |-> "built",
               vers |-> 0,
               dev_name |-> dev_name.bytes,
               dev_type |-> 5,
               dev_addr |-> a.flash_address,
               device_size |-> a.flash_size,
               page_size |-> a.page_size,
               _reserved |-> u32(0, 0),
               empty |-> a.empty_value,
               program_time_out |-> u32(0, 1000),
               erase_time_out |-> u32(0, 2000),
               flash_sectors |-> flash_sectors])

\* Variant of SelfTestMetadataOf whose test_cnt counts the end marker too.
SelfTestMetadataOf_CountsSentinel(a) ==
    LET names == [i \in 1..Len(a.self_tests) |->
                     assign_name(TEST_NAME_LEN, a.self_tests[i].test_name)]
        test_items ==
            [i \in 1..Len(a.self_tests) |->
                [id |-> a.self_tests[i].test_id,
                 name |-> IF names[i].state = "array" THEN names[i].bytes
                          ELSE <<>>]]
            \o <<[id |-> u32(65535, 65535),
                  name |-> [k \in 1..TEST_NAME_LEN |-> 255]]>>
    IN IF \E i \in 1..Len(names) : names[i].state # "array"
       THEN ConstEvalError
       ELSE ArrayField(test_items, count(a.self_tests) + 1,
              [state |-> "built",
               magic |-> u32(21359, 30060),
               test_cnt |-> as_u32(count(a.self_tests) + 1),
               ram_start_addr |-> a.ram_start_addr,
               ram_end_addr |-> a.ram_end_addr,
               test_items |-> test_items])

\* lib.rs:221-239 with the types of lib.rs:256-269; 0x536f_756c is
\* u32(21359, 30060).
SelfTestMetadataOf(a) ==
    LET names == [i \in 1..Len(a.self_tests) |->
                     assign_name(TEST_NAME_LEN, a.self_tests[i].test_name)]
        test_items ==
            [i \in 1..Len(a.self_tests) |->
                [id |-> a.self_tests[i].test_id,
                 name |-> IF names[i].state = "array" THEN names[i].bytes
                          ELSE <<>>]]
            \o <<[id |-> u32(65535, 65535),
                  name |-> [k \in 1..TEST_NAME_LEN |-> 255]]>>
    IN IF \E i \in 1..Len(names) : names[i].state # "array"
       THEN ConstEvalError
       ELSE ArrayField(test_items, count(a.self_tests) + 1,
              [state |-> "built",
               magic |-> u32(21359, 30060),
               test_cnt |-> as_u32(count(a.self_tests)),
               ram_start_addr |-> a.ram_start_addr,
               ram_end_addr |-> a.ram_end_addr,
               test_items |-> test_items])

\* Sector and self-test entries an author may write: the ones of main.rs
\* (lines 17-27) and one more of each.
SectorChoices ==
    {[size |-> u32(0, 1024), address |-> u32(0, 0)],
     [size |-> u32(1, 0), address |-> u32(2, 0)]}

TestChoices ==
    {[test_id |-> u32(0, 1), test_name |-> <<116, 101, 115, 116>>],
     [test_id |-> u32(0, 2), test_name |-> <<65>>]}

\* algorithm! arguments: the scalar ones as in main.rs:10-16, the lists
\* drawn from the choices above, the empty list included.
Authored ==
    {[target_name |-> <<115, 116, 109, 51, 50, 119, 108, 101, 53>>,
      flash_address |-> u32(2048, 0),
      flash_size |-> u32(4, 0),
      page_size |-> as_u32(page_size),
      empty_value |-> 255,
      ram_start_addr |-> u32(8192, 0),
      ram_end_addr |-> u32(8193, 0),
      sectors |-> ss,
      self_tests |-> ts] :
        ss \in SeqsUpTo(SectorChoices, MaxSectors),
        ts \in SeqsUpTo(TestChoices, MaxTests)}

Pending == [state |-> "pending"]

\* Before the build: an assign_name call and an algorithm! invocation are
\* written, nothing is evaluated, and the statics are as in an image that
\* never ran.
Written ==
    /\ StaticsLoaded
    /\ nameArgs \in [OPT_LEN : 0..MaxWidth, name : SeqsUpTo(NameBytes, MaxNameLen)]
    /\ nameAns = Pending
    /\ authored \in Authored
    /\ FlashDevice = Pending
    /\ SelfTestMetadata = Pending

\* Constant evaluation of assign_name::<OPT_LEN>(name).
AssignName ==
    /\ nameAns = Pending
    /\ nameAns' = assign_name(nameArgs.OPT_LEN, nameArgs.name)
    /\ UNCHANGED <<runVars, nameArgs, authored, FlashDevice, SelfTestMetadata>>

\* Expansion of algorithm!: both statics, or neither when the invocation
\* matches no rule of the macro.
ExpandAlgorithm ==
    /\ FlashDevice = Pending
    /\ FlashDevice' = IF MacroMatches(authored) THEN FlashDeviceOf(authored)
                      ELSE NoMatch
    /\ SelfTestMetadata' = IF MacroMatches(authored)
                           THEN SelfTestMetadataOf(authored)
                           ELSE NoMatch
    /\ UNCHANGED <<runVars, nameArgs, nameAns, authored>>

Build == AssignName \/ ExpandAlgorithm

SpecBuild == Written /\ [][Build]_vars

\* ------------------------------------------------------------------------
\* Properties
\* ------------------------------------------------------------------------

Operations == {"EraseSector", "ProgramPage", "EraseChip", "Verify"}

\* The capability each operation entry stands for.
CapabilityOf(entry) ==
    CASE entry = "EraseSector" -> "erase_sector"
      [] entry = "ProgramPage" -> "program_page"
      [] entry = "EraseChip" -> "erase_all"
      [] entry = "Verify" -> "verify"
      [] OTHER -> "none"

\* The calls of `ev` made by the last entry.
Events(ev) == {i \in 1..Len(log) : log[i].ev = ev}

\* C1: between entry calls, the initialized flag is true if and only if the
\* storage holds one constructed, not yet destroyed instance.
C1_SlotInvariant ==
    halted = "no" => (_IS_INIT <=> _ALGO_INSTANCE.state = "live")

\* C2: when the constructor called by Init returned an error, the flag is
\* false when Init returns, and an EraseSector called next returns 1.
C2_FailedInitLeavesUninitialized ==
    /\ (lastEntry = "Init" /\ hist = "initErr") => ~_IS_INIT
    /\ (lastEntry = "EraseSector" /\ prev.entry = "Init" /\ prev.hist = "initErr")
          => lastRet = Returned(1)

\* C3: as long as no Init has succeeded, EraseSector, ProgramPage,
\* EraseChip, Verify and UnInit return 1.
C3_PreInitGuard ==
    (~hadOkInit /\ lastEntry \in Operations \cup {"UnInit"})
        => lastRet = Returned(1)

\* C4: an UnInit called in a session opened by a successful Init (with any
\* operation entries in between) returns 0, runs the destructor of the held
\* instance exactly once and clears the flag; an UnInit called right after
\* it returns 1 and runs no destructor.
C4_InitUnInitRoundTrip ==
    /\ (lastEntry = "UnInit" /\ pre.hist = "initOk")
          => /\ lastRet = Returned(0)
             /\ ~_IS_INIT
             /\ Len(log) = 1
             /\ log[1].ev = "drop" /\ log[1].live /\ log[1].id = pre.inst.id
             /\ _ALGO_INSTANCE.state = "dropped"
    /\ (lastEntry = "UnInit" /\ prev.entry = "UnInit" /\ prev.pre.hist = "initOk")
          => /\ lastRet = Returned(1)
             /\ log = <<>>
             /\ ~_IS_INIT

C4_Witness ==
    /\ calls = 4
    /\ lastEntry = "UnInit" /\ lastRet = Returned(1)
    /\ prev.entry = "UnInit" /\ prev.ret = Returned(0)
    /\ prev.pre.hist = "initOk"
    /\ drops = 1

\* C5: an Init called while the flag is set runs the destructor before it
\* calls the constructor, on the held instance when there is one; after two
\* successful Init calls in a row the second call has destroyed the first
\* instance and constructed the one the slot holds, and when these are the
\* only two calls there have been two constructions and one destruction.
C5_ReInitOrdering ==
    /\ (lastEntry = "Init" /\ pre.init)
          => /\ Len(log) >= 1 /\ log[1].ev = "drop"
             /\ \A i \in Events("new") : i > 1
             /\ pre.inst.state = "live"
                   => log[1].live /\ log[1].id = pre.inst.id
    /\ (lastEntry = "Init" /\ hist = "initOk"
          /\ prev.entry = "Init" /\ prev.hist = "initOk")
          => /\ Len(log) = 2
             /\ log[1].ev = "drop" /\ log[1].live /\ log[1].id = pre.inst.id
             /\ log[2].ev = "new"
             /\ _ALGO_INSTANCE.state = "live"
             /\ _ALGO_INSTANCE.id = pre.inst.id + 1
             /\ calls = 2 => news = 2 /\ drops = 1 /\ _ALGO_INSTANCE.id = 2

C5_Witness ==
    /\ calls = 2
    /\ lastEntry = "Init" /\ hist = "initOk"
    /\ prev.entry = "Init" /\ prev.hist = "initOk"
    /\ news = 2 /\ drops = 1

\* C6: an Init with a selector 1, 2 or 3 that gets as far as returning has
\* called the constructor exactly once, and returns 0 when the constructor
\* returned an instance and E when it returned the error code E, whatever
\* the flag was before the call and whatever the inner UnInit did.
C6_InitResultFromConstructor ==
    (lastEntry = "Init" /\ lastArgs[3] \in {1, 2, 3} /\ halted = "no")
        => /\ Cardinality(Events("new")) = 1
           /\ \A i \in Events("new") :
                 /\ i = Len(log)
                 /\ log[i].res.kind = "ok" => lastRet = Returned(0)
                 /\ log[i].res.kind = "err"
                       => lastRet = Returned(log[i].res.err) /\ lastRet.code # 0

C6_Witness ==
    /\ lastEntry = "Init" /\ pre.init /\ pre.inst.state = "live"
    /\ Len(log) = 2 /\ log[2].res = Err(28880)
    /\ lastRet = Returned(28880)

\* C7: an operation entry called with the flag set calls its capability
\* exactly once and nothing else, returns 0 when the capability returned Ok
\* and E when it returned the error code E, and never returns 0 otherwise.
C7_OperationPassthrough ==
    (lastEntry \in Operations /\ pre.init)
        => /\ Len(log) = 1
           /\ log[1].ev = CapabilityOf(lastEntry)
           /\ log[1].res.kind = "ok" => lastRet = Returned(0)
           /\ log[1].res.kind = "err" => lastRet = Returned(log[1].res.err)
           /\ log[1].res.kind # "ok" => lastRet # Returned(0)

C7_Witness ==
    /\ lastEntry = "EraseChip" /\ pre.init /\ pre.inst.state = "live"
    /\ log[1].res = Err(28880)
    /\ lastRet = Returned(28880)

\* C8: an Init with a selector other than 1, 2 and 3 returns nothing, calls
\* no constructor and stops the machine, and once the machine has stopped no
\* entry runs; for 1, 2 and 3 the constructor receives Erase, Program and
\* Verify.
C8_UnknownSelectorTraps ==
    /\ (lastEntry = "Init" /\ lastArgs[3] \notin {1, 2, 3})
          => /\ ~lastRet.returned
             /\ halted # "no"
             /\ Events("new") = {}
    /\ halted # "no" => ~ENABLED Next
    /\ lastEntry = "Init" =>
          \A i \in Events("new") :
              log[i].function = CASE lastArgs[3] = 1 -> "Erase"
                                  [] lastArgs[3] = 2 -> "Program"
                                  [] lastArgs[3] = 3 -> "Verify"
                                  [] OTHER -> "unknown"

C8_Witness ==
    /\ lastEntry = "Init" /\ lastArgs[3] = 4
    /\ halted = "panic" /\ ~lastRet.returned
    /\ pre.inst.state = "live" /\ calls < MaxCalls

\* C9: on a live instance erase_sector and erase_all are called only when
\* the instance was constructed with Erase, program_page only with Program
\* and verify only with Verify.
C9_FunctionGatedDispatch ==
    \A i \in 1..Len(log) :
        log[i].live =>
            /\ log[i].ev \in {"erase_sector", "erase_all"}
                  => log[i].function = "Erase"
            /\ log[i].ev = "program_page" => log[i].function = "Program"
            /\ log[i].ev = "verify" => log[i].function = "Verify"

\* C10: an entry that returns 1 was called with the flag clear, and no
\* constructor or capability error is returned to the host as 1.
C10_StatusOneReserved ==
    /\ lastRet = Returned(1) => ~pre.init
    /\ \A i \in 1..Len(log) :
          log[i].res.kind = "err" => lastRet # Returned(1)

\* C11: a Verify called with the flag set calls verify once with the host's
\* addr and size; the buffer argument is None exactly when data is null, and
\* then no slice is built from the null pointer; otherwise it is the view of
\* size bytes starting at data.
C11_VerifyMarshalling ==
    (lastEntry = "Verify" /\ pre.init)
        => /\ Len(log) = 1 /\ log[1].ev = "verify"
           /\ log[1].args[1] = lastArgs[1]
           /\ log[1].args[2] = lastArgs[2]
           /\ log[1].args[3].none <=> lastArgs[3] = NULL
           /\ log[1].args[3].none
                 => log[1].args[3].ptr = NULL /\ log[1].args[3].len = 0
           /\ ~log[1].args[3].none
                 => /\ log[1].args[3].ptr = lastArgs[3]
                    /\ log[1].args[3].len = lastArgs[2]

C11_Witness ==
    /\ lastEntry = "Verify" /\ pre.init /\ pre.inst.state = "live"
    /\ lastArgs = <<134217728, 4, NULL>>
    /\ Len(log) = 1 /\ log[1].args[3].none
    /\ lastRet = Returned(0)

\* C12 (as claimed): every view passed to program_page is at most page_size
\* long, has the length of the host's size argument, and the address is
\* passed through unchanged.
C12_PageBound ==
    (lastEntry = "ProgramPage" /\ pre.init)
        => /\ Len(log) = 1 /\ log[1].ev = "program_page"
           /\ log[1].args[2].len <= page_size
           /\ log[1].args[2].len = lastArgs[2]
           /\ log[1].args[1] = lastArgs[1]

\* C12 (amended): the view passed to program_page starts at data and has
\* the length of the host's size argument, whether or not that exceeds
\* page_size, and the address is passed through unchanged.
C12_ViewIsHostSize ==
    (lastEntry = "ProgramPage" /\ pre.init)
        => /\ Len(log) = 1 /\ log[1].ev = "program_page"
           /\ log[1].args[2].len = lastArgs[2]
           /\ log[1].args[2].ptr = lastArgs[3]
           /\ log[1].args[1] = lastArgs[1]

C12_Witness ==
    /\ lastEntry = "ProgramPage" /\ pre.init /\ pre.inst.state = "live"
    /\ lastArgs[2] > page_size /\ lastArgs[3] # NULL
    /\ Len(log) = 1 /\ log[1].args[2].len > page_size
    /\ lastRet = Returned(0)

Capabilities == {"erase_sector", "program_page", "erase_all", "verify"}

\* C16: an Init with an unknown selector called while the flag is set has
\* run the destructor on the held instance, and nothing else, when it traps.
C16_DropBeforeDecode ==
    (lastEntry = "Init" /\ lastArgs[3] \notin {1, 2, 3} /\ pre.init)
        => /\ Len(log) = 1 /\ log[1].ev = "drop"
           /\ log[1].id = pre.inst.id
           /\ log[1].live <=> pre.inst.state = "live"
           /\ _ALGO_INSTANCE.state = "dropped"
           /\ halted # "no"

C16_Witness ==
    /\ lastEntry = "Init" /\ lastArgs[3] = 0
    /\ pre.init /\ pre.inst.state = "live"
    /\ halted = "panic"
    /\ Len(log) = 1 /\ log[1].ev = "drop" /\ log[1].live
    /\ drops = news

\* C17: every capability call is made on storage that holds a live
\* instance.
C17_CapabilityOnLiveInstance ==
    \A i \in 1..Len(log) :
        log[i].ev \in Capabilities => log[i].live

\* C18: destructor runs never outnumber constructions, at most one
\* constructed instance is not yet destroyed, and every destructor run is on
\* a live instance.
C18_ConstructDestroyBalance ==
    /\ drops <= news
    /\ news - drops <= 1
    /\ \A i \in Events("drop") : log[i].live

\* C19: an operation entry leaves the flag and the held instance as they
\* were, whatever the capability returned; an operation entry or an UnInit
\* called with the flag clear calls nothing into the implementation and
\* leaves both statics as they were.
C19_OperationsKeepLifecycle ==
    /\ lastEntry \in Operations
          => _IS_INIT = pre.init /\ _ALGO_INSTANCE = pre.inst
    /\ (lastEntry \in Operations \cup {"UnInit"} /\ ~pre.init)
          => /\ log = <<>>
             /\ _IS_INIT = FALSE
             /\ _ALGO_INSTANCE = pre.inst

C19_Witness ==
    /\ lastEntry = "EraseSector" /\ pre.init /\ pre.inst.state = "live"
    /\ Len(log) = 1 /\ log[1].res = Err(28880)
    /\ _IS_INIT /\ _ALGO_INSTANCE.state = "live"
    /\ calls < MaxCalls

\* C13: assign_name::<W>(s) with |s| <= W is the array of W bytes that has
\* s[i] at every i < |s| and 0 after it; with |s| > W the assertion fails
\* and there is no array.
C13_NamePadding ==
    nameAns # Pending =>
        IF Len(nameArgs.name) <= nameArgs.OPT_LEN
        THEN /\ nameAns.state = "array"
             /\ Len(nameAns.bytes) = nameArgs.OPT_LEN
             /\ \A i \in 1..nameArgs.OPT_LEN :
                   nameAns.bytes[i] = IF i <= Len(nameArgs.name)
                                      THEN nameArgs.name[i] ELSE 0
        ELSE nameAns = [state |-> "assert_failed"]

C13_Witness ==
    /\ nameArgs = [OPT_LEN |-> 4, name |-> <<65, 122>>]
    /\ nameAns = [state |-> "array", bytes |-> <<65, 122, 0, 0>>]

\* C14: for N >= 1 authored sectors, flash_sectors has N+1 elements, the
\* first N being the authored {size, address} pairs in authored order and
\* the last being {0xFFFF_FFFF, 0xFFFF_FFFF}.
C14_SectorSentinel ==
    (FlashDevice # Pending /\ Len(authored.sectors) >= 1
        /\ Len(authored.self_tests) >= 1)
        => /\ FlashDevice.state = "built"
           /\ Len(FlashDevice.flash_sectors) = Len(authored.sectors) + 1
           /\ \A i \in 1..Len(authored.sectors) :
                 FlashDevice.flash_sectors[i] = authored.sectors[i]
           /\ FlashDevice.flash_sectors[Len(authored.sectors) + 1]
                 = [size |-> <<65535, 65535>>, address |-> <<65535, 65535>>]

C14_Witness ==
    /\ Len(authored.sectors) = 2 /\ authored.sectors[1] # authored.sectors[2]
    /\ FlashDevice.state = "built"
    /\ Len(FlashDevice.flash_sectors) = 3

\* C15: for M >= 1 authored self-tests, magic is 0x536F_756C, test_cnt is M,
\* test_items has M+1 elements, the first M being the authored items in
\* authored order (the name zero-padded to 32 bytes) and the last being
\* {id = 0xFFFF_FFFF, name = 32 bytes of 0xFF}.
C15_SelfTestList ==
    (SelfTestMetadata # Pending /\ Len(authored.self_tests) >= 1
        /\ Len(authored.sectors) >= 1)
        => LET M == Len(authored.self_tests)
               items == SelfTestMetadata.test_items
           IN /\ SelfTestMetadata.state = "built"
              /\ SelfTestMetadata.magic = <<21359, 30060>>
              /\ SelfTestMetadata.test_cnt = <<0, M>>
              /\ Len(items) = M + 1
              /\ \A i \in 1..M :
                    /\ items[i].id = authored.self_tests[i].test_id
                    /\ Len(items[i].name) = 32
                    /\ \A k \in 1..32 :
                          items[i].name[k] =
                              IF k <= Len(authored.self_tests[i].test_name)
                              THEN authored.self_tests[i].test_name[k] ELSE 0
              /\ items[M + 1].id = <<65535, 65535>>
              /\ Len(items[M + 1].name) = 32
              /\ \A k \in 1..32 : items[M + 1].name[k] = 255

C15_Witness ==
    /\ Len(authored.self_tests) = 2
    /\ authored.self_tests[1] # authored.self_tests[2]
    /\ SelfTestMetadata.state = "built"
    /\ SelfTestMetadata.test_cnt = <<0, 2>>
    /\ Len(SelfTestMetadata.test_items) = 3

====
